---- MODULE Spec2Model ----
(***************************************************************************)
(* Model of admin_tools/architect.py (Aphex Architect, a Streamlit page):  *)
(*   - build_blueprint_from_folder, the blueprint builder                  *)
(*   - deploy_to_github, the create-or-update of admin_tools_blueprint.json*)
(*   - the button handlers of the page and the session state they mutate   *)
(* A Python str is a sequence of one-character strings; a file's bytes are *)
(* a sequence of byte tokens.                                              *)
(***************************************************************************)
EXTENDS Integers, Sequences, FiniteSets, TLC

\* ---------------------------------------------------------------- bounds
MaxNodes == 3
MaxDepth == 2
MaxHistory == 4

\* ------------------------------------------------------------ Python str
None == <<>>

RECURSIVE Concat(_)
\* ''.join(parts) for a sequence of str
Concat(parts) ==
    IF parts = <<>> THEN <<>> ELSE Head(parts) \o Concat(Tail(parts))

\* code points of the characters the model uses
Ord(c) ==
    CASE c = "\n" -> 10
      [] c = " "  -> 32
      [] c = "\"" -> 34
      [] c = "/"  -> 47
      [] c = ":"  -> 58
      [] c = "\\" -> 92
      [] c = "_"  -> 95
      [] c = "a"  -> 97
      [] c = "d"  -> 100
      [] c = "h"  -> 104
      [] c = "i"  -> 105
      [] c = "l"  -> 108
      [] c = "m"  -> 109
      [] c = "n"  -> 110
      [] c = "o"  -> 111
      [] c = "s"  -> 115
      [] c = "t"  -> 116
      [] OTHER    -> 128

RECURSIVE StrLess(_, _)
\* s < t on str: lexicographic by code point, a proper prefix is smaller
StrLess(s, t) ==
    IF t = <<>> THEN FALSE
    ELSE IF s = <<>> THEN TRUE
    ELSE IF Head(s) # Head(t) THEN Ord(Head(s)) < Ord(Head(t))
    ELSE StrLess(Tail(s), Tail(t))

\* ------------------------------------------------------ the walked folder
\* name of the walked folder (admin_folder = base_path / 'admin_tools')
RootName == <<"a", "d", "m", "i", "n", "_", "t", "o", "o", "l", "s">>

\* names of the entries below it
Names == { <<"a">>, <<"s">> }

\* a byte that is not valid UTF-8
BadByte == "0xFF"

\* byte contents of the files
FileData == { <<"h", "i">>, <<"\"">>, <<"h", "\r", "\n">>, <<"h", BadByte>> }

DirNode == [kind |-> "dir", readable |-> TRUE, data |-> <<>>]

FileNodes ==
    { [kind |-> "file", readable |-> TRUE, data |-> d] : d \in FileData }
      \cup { [kind |-> "file", readable |-> FALSE, data |-> <<"h", "i">>] }

\* paths below the folder: sequences of names, at most MaxDepth long
PathsOfLen(n) == [1..n -> Names]
AllPaths == UNION { PathsOfLen(n) : n \in 1..MaxDepth }

Parent(p) == SubSeq(p, 1, Len(p) - 1)

\* q lies below the directory p
IsBelow(q, p) ==
    IF Len(q) > Len(p) THEN SubSeq(q, 1, Len(p)) = p ELSE FALSE

\* the folder: root is "dir", "file" (not a directory) or "missing";
\* nodes maps each path that exists below it to its node
EmptyNodes == [p \in {} |-> DirNode]
EmptyTree == [root |-> "dir", nodes |-> EmptyNodes]

RECURSIVE PathLess(_, _)
\* p < q on pathlib paths: compares the tuples of parts
PathLess(p, q) ==
    IF q = <<>> THEN FALSE
    ELSE IF p = <<>> THEN TRUE
    ELSE IF Head(p) # Head(q) THEN StrLess(Head(p), Head(q))
    ELSE PathLess(Tail(p), Tail(q))

RECURSIVE sorted(_)
\* sorted(S) for a set of paths
sorted(S) ==
    IF S = {} THEN <<>>
    ELSE LET m == CHOOSE p \in S : \A q \in S \ {p} : PathLess(p, q)
         IN <<m>> \o sorted(S \ {m})

\* folder.rglob('*'): every entry below the folder, directories included
rglob(t) == DOMAIN t.nodes

RECURSIVE as_posix(_)
\* PurePath.as_posix(): the parts joined by '/'
as_posix(parts) ==
    IF Len(parts) = 1 THEN Head(parts)
    ELSE Head(parts) \o <<"/">> \o as_posix(Tail(parts))

\* p.relative_to(folder.parent): the folder's own name is the first part
relative_to_parent(p) == <<RootName>> \o p

RECURSIVE newlines(_)
\* universal newlines of text mode: '\r\n' and '\r' are read as '\n'
newlines(s) ==
    IF s = <<>> THEN <<>>
    ELSE IF Head(s) = "\r"
         THEN IF Len(s) >= 2 /\ s[2] = "\n"
              THEN <<"\n">> \o newlines(SubSeq(s, 3, Len(s)))
              ELSE <<"\n">> \o newlines(Tail(s))
    ELSE <<Head(s)>> \o newlines(Tail(s))

\* read_text with errors='replace': a byte that does not decode never raises
read_text_Lenient(node) ==
    IF ~node.readable THEN [ok |-> FALSE, text |-> <<>>]
    ELSE [ok |-> TRUE, text |-> newlines(node.data)]

\* p.read_text(encoding='utf-8'): ok is FALSE when it raises (the file cannot
\* be opened, or a byte does not decode)
read_text(node) ==
    IF ~node.readable THEN [ok |-> FALSE, text |-> <<>>]
    ELSE IF \E i \in 1..Len(node.data) : node.data[i] = BadByte
         THEN [ok |-> FALSE, text |-> <<>>]
    ELSE [ok |-> TRUE, text |-> newlines(node.data)]

is_file(node) == node.kind = "file"

\* --------------------------------------------------------------- dict
\* a dict is the sequence of its items in insertion order
Keys(d) == { d[i].key : i \in 1..Len(d) }

\* d[k] = v
DictSet(d, k, v) ==
    IF k \in Keys(d)
    THEN [i \in 1..Len(d) |-> IF d[i].key = k THEN [key |-> k, value |-> v] ELSE d[i]]
    ELSE Append(d, [key |-> k, value |-> v])

RECURSIVE BuildLoop(_, _, _)
\* the loop of build_blueprint_from_folder over the sorted paths
BuildLoop(ps, t, bp) ==
    IF ps = <<>> THEN bp
    ELSE LET p == Head(ps)
             rel == as_posix(relative_to_parent(p))
             r == read_text(t.nodes[p])
         IN IF is_file(t.nodes[p]) /\ r.ok
            THEN BuildLoop(Tail(ps), t, DictSet(bp, rel, r.text))
            ELSE BuildLoop(Tail(ps), t, bp)

build_blueprint_from_folder(t) ==
    IF t.root # "dir" THEN <<>>
    ELSE BuildLoop(sorted(rglob(t)), t, <<>>)

\* ---------------------------------------------------------------- json
\* the escapes of json.dumps(..., ensure_ascii=False)
JsonEscape(c) ==
    CASE c = "\"" -> <<"\\", "\"">>
      [] c = "\\" -> <<"\\", "\\">>
      [] c = "\n" -> <<"\\", "n">>
      [] OTHER    -> <<c>>

JsonString(s) ==
    <<"\"">> \o Concat([i \in 1..Len(s) |-> JsonEscape(s[i])]) \o <<"\"">>

JsonItem(it) == JsonString(it.key) \o <<":", " ">> \o JsonString(it.value)

\* json.dumps(d, indent=2, ensure_ascii=False)
json_dumps(d) ==
    IF d = <<>> THEN <<"{", "}">>
    ELSE <<"{">>
         \o Concat([i \in 1..Len(d) |->
                (IF i = 1 THEN <<"\n", " ", " ">> ELSE <<",", "\n", " ", " ">>)
                \o JsonItem(d[i])])
         \o <<"\n", "}">>

\* ----------------------------------------------------------- exceptions
\* str.lower() on the characters the error texts use
lower_char(c) ==
    CASE c = "N" -> "n"
      [] c = "F" -> "f"
      [] c = "C" -> "c"
      [] OTHER   -> c

lower(s) == [i \in 1..Len(s) |-> lower_char(s[i])]

\* sub in s
Contains(s, sub) ==
    \E i \in 1..(Len(s) - Len(sub) + 1) : SubSeq(s, i, i + Len(sub) - 1) = sub

TokenMissing == [type |-> "ValueError", text |-> <<"t", "o", "k", "e", "n">>]
RepoMissing == [type |-> "ValueError", text |-> <<"r", "e", "p", "o">>]

\* the texts of the errors the remote service answers with
Text404 == <<"4", "0", "4">>
TextNotFound == <<"N", "o", "t", " ", "F", "o", "u", "n", "d">>
Text409 == <<"4", "0", "9", " ", "C", "o", "n", "f", "l", "i", "c", "t">>

GithubException(text) == [type |-> "GithubException", text |-> text]

RemoteErrors == { GithubException(t) : t \in {Text404, TextNotFound, Text409} }

\* the condition without .lower(): 'not found' is matched case-sensitively
IsNotFoundStyle_CaseSensitive(err_str) ==
    \/ Contains(err_str, <<"4", "0", "4">>)
    \/ Contains(err_str, <<"n", "o", "t", " ", "f", "o", "u", "n", "d">>)

\* the condition with '40' for '404'
IsNotFoundStyle_Loose(err_str) ==
    \/ Contains(err_str, <<"4", "0">>)
    \/ Contains(lower(err_str), <<"n", "o", "t", " ", "f", "o", "u", "n", "d">>)

\* the condition of the except clause of deploy_to_github
IsNotFoundStyle(err_str) ==
    \/ Contains(err_str, <<"4", "0", "4">>)
    \/ Contains(lower(err_str), <<"n", "o", "t", " ", "f", "o", "u", "n", "d">>)

\* ------------------------------------------------------- remote service
target_path ==
    <<"a", "d", "m", "i", "n", "_", "t", "o", "o", "l", "s", "_",
      "b", "l", "u", "e", "p", "r", "i", "n", "t", ".", "j", "s", "o", "n">>

Branches == { "main", "dev" }

\* the sidebar's branch input (its default)
PageBranches == { "main" }
Tokens == { "", "ghp" }
RepoNames == { "", "o/r" }

\* file contents other clients of the repository write
OtherContents == { <<"{", "}">>, <<"x">> }

\* the version token of a stored file: the hash of its content
sha_of(content) == <<"sha">> \o content

\* ------------------------------------------------------------ variables
VARIABLES
    history,      \* st.session_state.history
    blueprint,    \* st.session_state.blueprint: None or <<dict>>
    messages,     \* the transcript of the last call of generate_response
    notice,       \* what the last run of the page reported
    tree,         \* the folder admin_folder on disk
    pc,           \* position in deploy_to_github
    frame,        \* arguments and locals of deploy_to_github
    calls,        \* the remote calls of the current deploy_to_github call
    result,       \* how the call ended: None, <<"returned">> or <<exception>>
    commits,      \* the commits the current call made
    conflict,     \* the update was refused: the stored version is not the fetched one
    remote        \* per branch: None or <<content>> of the target file

vars ==
    <<history, blueprint, messages, notice, tree,
      pc, frame, calls, result, commits, conflict, remote>>

sessionVars == <<history, blueprint, messages, notice>>
deployVars == <<pc, frame, calls, result, commits, conflict>>

NoFrame ==
    [token |-> "", repo_full_name |-> "", blueprint |-> <<>>,
     branch_name |-> "main", content_str |-> <<>>, existing |-> <<>>]

\* one remote call as the caller sees it
Call(op, path, content, sha, branch, res) ==
    [op |-> op, path |-> path, content |-> content, sha |-> sha,
     branch |-> branch, result |-> res]

Ok == [type |-> "ok", text |-> <<>>]

\* ------------------------------------------------------ deploy_to_github
\* entry of deploy_to_github(token, repo_full_name, blueprint, branch_name=...)
Enter(token, repo_full_name, bp, branch_name) ==
    /\ pc' = "l83"
    /\ frame' = [NoFrame EXCEPT !.token = token,
                                !.repo_full_name = repo_full_name,
                                !.blueprint = bp,
                                !.branch_name = branch_name]
    /\ calls' = <<>>
    /\ result' = <<>>
    /\ commits' = <<>>
    /\ conflict' = FALSE

\* leaving by an exception
Raise(e) ==
    /\ pc' = "done"
    /\ result' = <<e>>

\* the end of the try block falls through into the creation of the file
ReturnNone_FallThrough ==
    /\ pc' = "l98"
    /\ UNCHANGED result

\* leaving by the end of the function
ReturnNone ==
    /\ pc' = "done"
    /\ result' = <<Ok>>

\* the argument checks with the repository name checked first
CheckArgs_RepoFirst ==
    /\ pc = "l83"
    /\ IF frame.repo_full_name = "" THEN Raise(RepoMissing)
       ELSE IF frame.token = "" THEN Raise(TokenMissing)
       ELSE pc' = "l87" /\ UNCHANGED result
    /\ UNCHANGED <<frame, calls, commits, conflict, remote>>
    /\ UNCHANGED <<sessionVars, tree>>

\* lines 83-86: the argument checks
CheckArgs ==
    /\ pc = "l83"
    /\ IF frame.token = "" THEN Raise(TokenMissing)
       ELSE IF frame.repo_full_name = "" THEN Raise(RepoMissing)
       ELSE pc' = "l87" /\ UNCHANGED result
    /\ UNCHANGED <<frame, calls, commits, conflict, remote>>
    /\ UNCHANGED <<sessionVars, tree>>

\* lines 87-90: g = Github(token); repo = g.get_repo(...); content_str = ...
GetRepo ==
    /\ pc = "l87"
    /\ \E res \in {Ok} \cup RemoteErrors :
         /\ calls' = calls \o
              << Call("Github", <<>>, <<>>, <<>>, "", Ok),
                 Call("get_repo", <<>>, <<>>, <<>>, "", res) >>
         /\ IF res = Ok
            THEN /\ pc' = "l92"
                 /\ frame' = [frame EXCEPT !.content_str = json_dumps(frame.blueprint)]
                 /\ UNCHANGED result
            ELSE Raise(res) /\ UNCHANGED frame
    /\ UNCHANGED <<commits, conflict, remote>>
    /\ UNCHANGED <<sessionVars, tree>>

\* lines 94-101: the except clause, entered with the exception e
Except(e) ==
    IF IsNotFoundStyle(e.text)
    THEN pc' = "l98" /\ UNCHANGED result
    ELSE Raise(e)

\* line 92: existing = repo.get_contents(target_path, ref=branch_name)
GetContents ==
    /\ pc = "l92"
    /\ LET stored == remote[frame.branch_name]
           answers == IF stored = None
                      THEN RemoteErrors
                      ELSE {Ok} \cup RemoteErrors
       IN \E res \in answers :
            /\ calls' = Append(calls,
                 Call("get_contents", target_path, <<>>, <<>>, frame.branch_name, res))
            /\ IF res = Ok
               THEN /\ frame' = [frame EXCEPT !.existing =
                          <<[path |-> target_path, sha |-> sha_of(stored[1])]>>]
                    /\ pc' = "l93"
                    /\ UNCHANGED result
               ELSE Except(res) /\ UNCHANGED frame
    /\ UNCHANGED <<commits, conflict, remote>>
    /\ UNCHANGED <<sessionVars, tree>>

\* a commit of the target file on a branch
Commit(branch, path, content) ==
    [branch |-> branch, path |-> path, content |-> content]

\* line 93: repo.update_file(existing.path, msg, content_str, existing.sha, branch=...)
\* the service accepts it only while the stored version is the one named by
\* sha, and answers a stale sha with 409 Conflict
UpdateFile ==
    /\ pc = "l93"
    /\ LET ex == frame.existing[1]
           b == frame.branch_name
           stored == remote[b]
           accepted == stored # None /\ sha_of(stored[1]) = ex.sha
           answers == IF accepted THEN {Ok} \cup RemoteErrors
                      ELSE IF stored = None THEN RemoteErrors
                      ELSE {GithubException(Text409)}
       IN /\ conflict' = ~accepted
          /\ \E res \in answers :
               /\ calls' = Append(calls,
                    Call("update_file", ex.path, frame.content_str, ex.sha, b, res))
               /\ IF res = Ok
                  THEN /\ remote' = [remote EXCEPT ![b] = <<frame.content_str>>]
                       /\ commits' = Append(commits, Commit(b, ex.path, frame.content_str))
                       /\ ReturnNone
                  ELSE Except(res) /\ UNCHANGED <<remote, commits>>
    /\ UNCHANGED frame
    /\ UNCHANGED <<sessionVars, tree>>

\* line 98: repo.create_file(target_path, msg, content_str, branch=...)
\* the service accepts it only while no file is stored at the path
CreateFile ==
    /\ pc = "l98"
    /\ LET b == frame.branch_name
           accepted == remote[b] = None
           answers == IF accepted THEN {Ok} \cup RemoteErrors ELSE RemoteErrors
       IN \E res \in answers :
            /\ calls' = Append(calls,
                 Call("create_file", target_path, frame.content_str, <<>>, b, res))
            /\ IF res = Ok
               THEN /\ remote' = [remote EXCEPT ![b] = <<frame.content_str>>]
                    /\ commits' = Append(commits, Commit(b, target_path, frame.content_str))
                    /\ ReturnNone
               ELSE Raise(res) /\ UNCHANGED <<remote, commits>>
    /\ UNCHANGED <<frame, conflict>>
    /\ UNCHANGED <<sessionVars, tree>>

\* another client of the repository writes the target file on a branch
OtherWrite ==
    /\ \E b \in Branches, c \in OtherContents :
         /\ remote[b] # <<c>>
         /\ remote' = [remote EXCEPT ![b] = <<c>>]
    /\ UNCHANGED <<sessionVars, tree, deployVars>>

\* another client of the repository removes the target file on a branch
OtherRemove ==
    /\ \E b \in Branches :
         /\ remote[b] # None
         /\ remote' = [remote EXCEPT ![b] = None]
    /\ UNCHANGED <<sessionVars, tree, deployVars>>

\* blueprints a caller passes to deploy_to_github
DeployBlueprints ==
    { <<>>, <<[key |-> as_posix(<<RootName, <<"a">>>>), value |-> <<"h", "i">>]>> }

\* a call of deploy_to_github by a caller other than the page
DirectCall ==
    /\ pc \in {"idle", "done"}
    /\ \E token \in Tokens, repo_full_name \in RepoNames,
          bp \in DeployBlueprints, branch_name \in Branches :
         Enter(token, repo_full_name, bp, branch_name)
    /\ UNCHANGED <<sessionVars, tree, remote>>

\* ------------------------------------------------------------- the page
\* what a run of the page reports: kind names the st.warning / st.error /
\* st.success / st.exception it shows, data is the payload it offers
Notice(kind) == [kind |-> kind, data |-> <<>>]

IsSpace(c) == c \in {" ", "\n", "\t", "\r"}

RECURSIVE lstrip(_)
lstrip(s) ==
    IF s # <<>> /\ IsSpace(Head(s)) THEN lstrip(Tail(s)) ELSE s

RECURSIVE rstrip(_)
rstrip(s) ==
    IF s # <<>> /\ IsSpace(s[Len(s)]) THEN rstrip(SubSeq(s, 1, Len(s) - 1)) ELSE s

\* str.strip()
strip(s) == rstrip(lstrip(s))

\* what the user types into the message box
UserInputs == { <<>>, <<" ">>, <<" ", "y">>, <<"h", "i">> }

\* the sidebar's OpenAI key
OpenAIKeys == { "", "sk" }

\* texts the model endpoint answers with
Replies == { <<>>, <<"o", "k">> }

Entry(role, content) == [role |-> role, content |-> content]

\* the history assigned a new list holding the entry alone
AppendEntry_Replace(h, role, content) == <<Entry(role, content)>>

\* st.session_state.history.append({'role': role, 'content': content})
AppendEntry(h, role, content) == Append(h, Entry(role, content))

\* generate_response(api_key, model, messages): <<text>> when it returns text,
\* None when it raises; answer is what the endpoint does, None for a failure
generate_response(api_key, msgs, answer) ==
    IF api_key = "" THEN None
    ELSE IF answer = None THEN None
    ELSE <<answer[1]>>

\* a failed request takes the user's message back out of the history
AfterSend_Rollback(h, user_input, assistant_text) ==
    IF assistant_text = None
    THEN h
    ELSE AppendEntry(AppendEntry(h, "user", user_input), "assistant", assistant_text[1])

\* lines 131-139: the history after a send that passed the checks;
\* assistant_text is None when generate_response raised
AfterSend(h, user_input, assistant_text) ==
    IF assistant_text = None
    THEN AppendEntry(h, "user", user_input)
    ELSE AppendEntry(AppendEntry(h, "user", user_input), "assistant", assistant_text[1])

\* lines 124-139: 'Send'
SendClick ==
    /\ pc = "idle"
    /\ \E user_input \in UserInputs, openai_key \in OpenAIKeys :
         IF user_input = <<>> \/ strip(user_input) = <<>>
         THEN /\ notice' = Notice("warning: enter a message")
              /\ messages' = <<>>
              /\ UNCHANGED history
         ELSE IF openai_key = ""
         THEN /\ notice' = Notice("error: OpenAI key required")
              /\ messages' = <<>>
              /\ UNCHANGED history
         ELSE /\ Len(history) + 2 <= MaxHistory
              /\ LET h1 == AppendEntry(history, "user", user_input)
                 IN /\ messages' = h1
                    /\ \E answer \in {None} \cup { <<r>> : r \in Replies } :
                         LET assistant_text == generate_response(openai_key, h1, answer)
                         IN /\ history' = AfterSend(history, user_input, assistant_text)
                            /\ notice' = Notice(IF assistant_text = None
                                                THEN "error: OpenAI request failed"
                                                ELSE "answered")
    /\ UNCHANGED <<blueprint, tree, deployVars, remote>>

\* lines 147-152: 'Build JSON blueprint from admin_tools/'
BuildClick ==
    /\ pc = "idle"
    /\ LET bp == build_blueprint_from_folder(tree)
       IN /\ blueprint' = <<bp>>
          /\ notice' = Notice(IF bp = <<>> THEN "warning: no files; built" ELSE "built")
    /\ messages' = <<>>
    /\ UNCHANGED <<history, tree, deployVars, remote>>

\* lines 163-173: 'Deploy blueprint to GitHub', up to the call
DeployClick ==
    /\ pc = "idle"
    /\ \E github_token \in Tokens, repo_name \in RepoNames, branch \in PageBranches :
         IF github_token = "" \/ repo_name = ""
         THEN /\ notice' = Notice("error: provide token and repo")
              /\ UNCHANGED deployVars
         ELSE IF blueprint = None
         THEN /\ notice' = Notice("error: build a blueprint first")
              /\ UNCHANGED deployVars
         ELSE /\ notice' = Notice("deploying")
              /\ Enter(github_token, repo_name, blueprint[1], branch)
    /\ messages' = <<>>
    /\ UNCHANGED <<history, blueprint, tree, remote>>

\* lines 174-176: 'Deploy blueprint to GitHub', after the call
DeployReturn ==
    /\ pc = "done"
    /\ pc' = "idle"
    /\ notice' = Notice(IF result = <<Ok>> THEN "deployed" ELSE "exception")
    /\ frame' = NoFrame
    /\ calls' = <<>>
    /\ result' = None
    /\ commits' = <<>>
    /\ conflict' = FALSE
    /\ UNCHANGED <<history, blueprint, messages, tree, remote>>

\* 'Clear chat' resetting the whole session state
ClearClick_All ==
    /\ pc = "idle"
    /\ history' = <<>>
    /\ blueprint' = None
    /\ notice' = Notice("cleared")
    /\ messages' = <<>>
    /\ UNCHANGED <<tree, deployVars, remote>>

\* lines 182-184: 'Clear chat'
ClearClick ==
    /\ pc = "idle"
    /\ history' = <<>>
    /\ notice' = Notice("cleared")
    /\ messages' = <<>>
    /\ UNCHANGED <<blueprint, tree, deployVars, remote>>

\* lines 186-191: 'Download blueprint'
DownloadClick ==
    /\ pc = "idle"
    /\ IF blueprint = None
       THEN notice' = Notice("error: no blueprint")
       ELSE notice' = [kind |-> "download", data |-> json_dumps(blueprint[1])]
    /\ messages' = <<>>
    /\ UNCHANGED <<history, blueprint, tree, deployVars, remote>>

\* ------------------------------------------------------- the file system
\* a file or directory appears below the folder
FsCreate ==
    /\ tree.root = "dir"
    /\ Cardinality(DOMAIN tree.nodes) < MaxNodes
    /\ \E p \in AllPaths, node \in FileNodes \cup {DirNode} :
         /\ p \notin DOMAIN tree.nodes
         /\ Len(p) > 1 => /\ Parent(p) \in DOMAIN tree.nodes
                          /\ tree.nodes[Parent(p)].kind = "dir"
         /\ tree' = [tree EXCEPT !.nodes =
                [q \in DOMAIN tree.nodes \cup {p} |->
                    IF q = p THEN node ELSE tree.nodes[q]]]
    /\ UNCHANGED <<sessionVars, deployVars, remote>>

\* a file or an empty directory below the folder is removed
FsDelete ==
    /\ \E p \in DOMAIN tree.nodes :
         /\ \A q \in DOMAIN tree.nodes : ~IsBelow(q, p)
         /\ tree' = [tree EXCEPT !.nodes =
                [q \in DOMAIN tree.nodes \ {p} |-> tree.nodes[q]]]
    /\ UNCHANGED <<sessionVars, deployVars, remote>>

\* the folder itself is removed, replaced by a file, or made again
FsRoot ==
    /\ DOMAIN tree.nodes = {}
    /\ \E k \in {"dir", "file", "missing"} :
         /\ k # tree.root
         /\ tree' = [tree EXCEPT !.root = k]
    /\ UNCHANGED <<sessionVars, deployVars, remote>>

\* the states of the folder a session of the page sees
PageTrees ==
    { EmptyTree,
      [root |-> "missing", nodes |-> EmptyNodes],
      [root |-> "dir", nodes |->
          (<< <<"a">> >> :> [kind |-> "file", readable |-> TRUE, data |-> <<"h", "i">>])],
      [root |-> "dir", nodes |->
          (<< <<"a">> >> :> [kind |-> "file", readable |-> TRUE, data |-> <<"h", BadByte>>])
          @@ (<< <<"s">> >> :> DirNode)
          @@ (<< <<"s">>, <<"a">> >> :>
                 [kind |-> "file", readable |-> TRUE, data |-> <<"h", "\r", "\n">>])] }

\* the folder changes between two runs of the page
FsChange ==
    /\ pc = "idle"
    /\ \E t \in PageTrees :
         /\ t # tree
         /\ tree' = t
    /\ UNCHANGED <<sessionVars, deployVars, remote>>

\* the folder is laid out before build_blueprint_from_folder is applied to it
FsLayout ==
    /\ blueprint = None
    /\ \/ FsCreate
       \/ FsDelete
       \/ FsRoot

\* ------------------------------------------------------- specifications
Init ==
    /\ history = <<>>
    /\ blueprint = None
    /\ messages = <<>>
    /\ notice = Notice("start")
    /\ tree = EmptyTree
    /\ pc = "idle"
    /\ frame = NoFrame
    /\ calls = <<>>
    /\ result = None
    /\ commits = <<>>
    /\ conflict = FALSE
    /\ remote = [b \in Branches |-> None]

\* a session of the page
Next ==
    \/ SendClick
    \/ BuildClick
    \/ DeployClick
    \/ CheckArgs
    \/ GetRepo
    \/ GetContents
    \/ UpdateFile
    \/ CreateFile
    \/ DeployReturn
    \/ ClearClick
    \/ DownloadClick
    \/ FsChange

Spec == Init /\ [][Next]_vars

\* deploy_to_github called with any arguments, beside other clients
NextDeploy ==
    \/ DirectCall
    \/ CheckArgs
    \/ GetRepo
    \/ GetContents
    \/ UpdateFile
    \/ CreateFile
    \/ OtherWrite
    \/ OtherRemove

SpecDeploy == Init /\ [][NextDeploy]_vars

\* build_blueprint_from_folder applied to any folder
NextBuild ==
    \/ BuildClick
    \/ FsLayout

SpecBuild == Init /\ [][NextBuild]_vars

\* ---------------------------------------------------------- properties
CallsOf(op) == SelectSeq(calls, LAMBDA c : c.op = op)
N(op) == Len(CallsOf(op))

IsPrefix(s, t) == Len(s) <= Len(t) /\ SubSeq(t, 1, Len(s)) = s

\* the fetch of the current call failed with an error of text t
FetchFailedWith(t) ==
    /\ N("get_contents") = 1
    /\ CallsOf("get_contents")[1].result = GithubException(t)

FetchFound ==
    /\ N("get_contents") = 1
    /\ CallsOf("get_contents")[1].result = Ok

\* C1: when the fetch fails with an error whose text holds "404" or, in any
\* case of letters, "not found", the call makes no update-file call and, once
\* it has ended, exactly one create-file call, which carries the serialized
\* blueprint to the target path on the given branch.
C1_CreateOnNotFound ==
    (FetchFailedWith(Text404) \/ FetchFailedWith(TextNotFound)) =>
        /\ N("update_file") = 0
        /\ N("create_file") <= 1
        /\ pc = "done" =>
             /\ N("create_file") = 1
             /\ CallsOf("create_file")[1].content = json_dumps(frame.blueprint)
             /\ CallsOf("create_file")[1].path = target_path
             /\ CallsOf("create_file")[1].branch = frame.branch_name

C1_Witness ==
    /\ pc = "done"
    /\ FetchFailedWith(TextNotFound)
    /\ frame.blueprint # <<>>
    /\ result = <<Ok>>
    /\ remote[frame.branch_name] = <<json_dumps(frame.blueprint)>>

\* C2 as stated: once the fetch has found the file, the call makes exactly one
\* fetch, exactly one update-file call that passes the fetched sha, and no
\* create-file call, however the update ends.
C2_UpdateOnly ==
    FetchFound =>
        /\ N("create_file") = 0
        /\ pc \in {"l98", "done"} =>
             /\ N("update_file") = 1
             /\ CallsOf("update_file")[1].sha = frame.existing[1].sha

\* C3 as stated: when the update is refused because another client changed or
\* removed the file after the fetch, the call makes no create-file call, ends
\* by raising the error of the update, and commits nothing.
C3_NoWriteAfterConflict ==
    conflict =>
        /\ N("create_file") = 0
        /\ pc = "done" =>
             /\ result = <<CallsOf("update_file")[1].result>>
             /\ commits = <<>>

\* C4: when the fetch fails with an error whose text holds neither "404" nor
\* "not found", the call ends at once by raising that same error, and makes
\* neither a create-file nor an update-file call.
C4_OtherFetchErrorReraised ==
    FetchFailedWith(Text409) =>
        /\ pc = "done"
        /\ result = <<GithubException(Text409)>>
        /\ N("create_file") = 0
        /\ N("update_file") = 0
        /\ commits = <<>>

C4_Witness ==
    /\ FetchFailedWith(Text409)
    /\ result = <<GithubException(Text409)>>
    /\ remote[frame.branch_name] # None

\* C5: a call with an empty token ends with the missing-token error, a call
\* with a token and an empty repository name ends with the missing-repository
\* error; neither makes any remote call (client, repository lookup, fetch,
\* create, update) nor any commit.
C5_ArgumentChecksFirst ==
    /\ (pc # "idle" /\ (frame.token = "" \/ frame.repo_full_name = "")) =>
          /\ pc \in {"l83", "done"}
          /\ calls = <<>>
          /\ commits = <<>>
    /\ (pc = "done" /\ frame.token = "") => result = <<TokenMissing>>
    /\ (pc = "done" /\ frame.token # "" /\ frame.repo_full_name = "") =>
          result = <<RepoMissing>>

C5_Witness ==
    /\ pc = "done"
    /\ frame.token = ""
    /\ frame.repo_full_name = ""
    /\ result = <<TokenMissing>>
    /\ \E b \in Branches : remote[b] # None

\* C6: a call makes at most one commit, and exactly one when it returns
\* without raising; every commit it makes is on the given branch, at the path
\* admin_tools_blueprint.json, and holds the serialized blueprint.
C6_OneCommit ==
    /\ Len(commits) <= 1
    /\ (pc = "done" /\ result = <<Ok>>) => Len(commits) = 1
    /\ \A i \in 1..Len(commits) :
         /\ commits[i].branch = frame.branch_name
         /\ commits[i].path = target_path
         /\ commits[i].content = json_dumps(frame.blueprint)

C6_Witness ==
    /\ pc = "done"
    /\ result = <<Ok>>
    /\ N("update_file") = 1
    /\ Len(commits) = 1
    /\ frame.blueprint # <<>>

\* the regular files of a folder, and the keys the builder gives them
Files(t) == { p \in DOMAIN t.nodes : t.nodes[p].kind = "file" }
Decodes(node) == \A i \in 1..Len(node.data) : node.data[i] # BadByte
KeyOf(p) == as_posix(<<RootName>> \o p)

\* the mapping holds exactly one entry per file of ps, under its key
EntriesAre(bp, ps) ==
    /\ Keys(bp) = { KeyOf(p) : p \in ps }
    /\ Len(bp) = Cardinality(ps)
    /\ \A i, j \in 1..Len(bp) : i # j => bp[i].key # bp[j].key

\* C7 as stated: the mapping built from a folder holds exactly one entry per
\* regular file whose bytes decode as UTF-8, keyed by its path from the
\* folder's parent, and none for other files or for directories.
C7_EntryPerDecodableFile ==
    blueprint # None =>
        EntriesAre(blueprint[1], { p \in Files(tree) : Decodes(tree.nodes[p]) })

\* C7 amended: the mapping built from a folder holds exactly one entry per
\* regular file that can be read and whose bytes decode as UTF-8, keyed by
\* its path from the folder's parent, with pairwise distinct keys; none for
\* files whose read raises or for directories; building again from the
\* unchanged folder gives the same mapping.
C7_EntryPerReadableFile ==
    blueprint # None =>
        /\ EntriesAre(blueprint[1],
              { p \in Files(tree) : tree.nodes[p].readable /\ Decodes(tree.nodes[p]) })
        /\ build_blueprint_from_folder(tree) = blueprint[1]

C7_Witness ==
    /\ blueprint # None
    /\ Len(blueprint[1]) = 1
    /\ \E p \in Files(tree) : Len(p) = 2 /\ KeyOf(p) \in Keys(blueprint[1])
    /\ \E p \in Files(tree) : ~Decodes(tree.nodes[p])

\* C8: the session's blueprint starts unset; a build request stores the whole
\* mapping built from the folder as it is then; every other step (send,
\* deploy, clear chat, download, changes of the folder) leaves it as it was.
C8_BlueprintWhole ==
    /\ blueprint = None
    /\ [][IF BuildClick
          THEN blueprint' = <<build_blueprint_from_folder(tree)>>
          ELSE blueprint' = blueprint]_vars

C8_Witness ==
    /\ blueprint # None
    /\ blueprint[1] # <<>>
    /\ build_blueprint_from_folder(tree) # blueprint[1]
    /\ history # <<>>
    /\ notice.kind = "deployed"

RejectedSend ==
    /\ SendClick
    /\ notice'.kind \in {"warning: enter a message", "error: OpenAI key required"}

\* C9: 'Clear chat' sets the history to the empty sequence; every other step
\* leaves the old history a prefix of the new one; a send rejected for a
\* blank message or a missing key leaves the history as it was.
C9_HistoryAppendOnly ==
    [][/\ ClearClick => history' = <<>>
       /\ ~ClearClick => IsPrefix(history, history')
       /\ RejectedSend => history' = history]_vars

C9_Witness ==
    /\ Len(history) = 3
    /\ notice.kind = "warning: enter a message"

FailedSend ==
    /\ SendClick
    /\ notice'.kind = "error: OpenAI request failed"

AssistantFollowsUser ==
    \A i \in 1..Len(history) :
        history[i].role = "assistant" => (i > 1 /\ history[i - 1].role = "user")

\* C10: every assistant entry of the history directly follows a user entry;
\* a send whose model call fails appends the user entry alone; the transcript
\* a send forwards is the whole history, unanswered user messages included,
\* followed by the new user message.
C10_AssistantFollowsUser ==
    /\ []AssistantFollowsUser
    /\ [][/\ FailedSend =>
               /\ Len(history') = Len(history) + 1
               /\ IsPrefix(history, history')
               /\ history'[Len(history')].role = "user"
          /\ (SendClick /\ messages' # <<>>) =>
               /\ Len(messages') = Len(history) + 1
               /\ IsPrefix(history, messages')
               /\ messages'[Len(messages')].role = "user"]_vars

C10_Witness ==
    /\ Len(history) >= 2
    /\ history[Len(history)].role = "user"
    /\ history[Len(history) - 1].role = "user"
    /\ messages = history
====
